---------------------------- MODULE Spec2Model ----------------------------
(***************************************************************************)
(* One run of the Streamlit script src/app.py: the sidebar defines the     *)
(* settings of the chosen mode, a PDF is (or is not) uploaded, one of      *)
(* process_visual_grid / process_raw_text extracts and normalises its      *)
(* content, and the output section shows the preview and the download or   *)
(* the "no data" warning.                                                  *)
(*                                                                         *)
(* A text is a sequence of one-character strings.  An absent cell (None,   *)
(* NaN) is the one-element sequence None, whose element is no character.   *)
(* A data frame is a record of its column labels and its rows.             *)
(*                                                                         *)
(* The libraries the script calls are modelled by what they return:        *)
(* pdfplumber's open / extract_table / extract_text give the inputs (or    *)
(* raise), pd.DataFrame, DataFrame.replace and pd.read_csv are operators.  *)
(* read_csv follows pandas' C tokenizer for the arguments of line 94-100.  *)
(* The page texts hold no digit and no NA keyword, so read_csv keeps every *)
(* non-empty field as text; carriage returns do not occur.                 *)
(***************************************************************************)
EXTENDS Integers, Sequences, FiniteSets, TLC

VARIABLES
    pc,            \* position of the script run
    settings,      \* the names the sidebar defined, with their values
    uploaded_file, \* [present, readable]: the file of the uploader
    all_rows,      \* process_visual_grid: rows gathered from the pages
    full_text,     \* process_raw_text: the text gathered, then filtered
    df_result,     \* NoDf (Python None) or a data frame
    ui,            \* the elements shown to the user in this run
    reads,         \* the setting names the run has read
    ran            \* the extraction functions the run has called

vars == <<pc, settings, uploaded_file, all_rows, full_text, df_result, ui, reads, ran>>

----------------------------------------------------------------------------
(* Bounds of the model *)

MaxRows == 2
MaxTextLen == 6
MaxLines == 4

----------------------------------------------------------------------------
(* Values *)

None == <<"None">>

NoDf == [isdf |-> FALSE, columns |-> <<>>, rows |-> <<>>]

GridMode == "Visual Grid (Standard)"
TextMode == "Raw Text / CSV (Data Dump)"

\* Cells pdfplumber's extract_table can return: absent, plain text, text with
\* an embedded newline, whitespace.
RawCells == {None, <<"A">>, <<"B", "\n", "C">>, <<"D">>, <<" ">>}

RawRowSet == {<<>>} \cup {<<c>> : c \in RawCells}
                 \cup {<<c, d>> : c \in RawCells, d \in RawCells}

\* page.extract_table(): None or [] (both the empty sequence here), or a
\* list of at most n rows
RawTables(n) == UNION {[1..k -> RawRowSet] : k \in 0..n}

Max(S) == CHOOSE x \in S : \A y \in S : y <= x
Min(S) == CHOOSE x \in S : \A y \in S : x <= y

----------------------------------------------------------------------------
(* Cell cleaning *)

\* re.sub(r'\n', ' ', s): every newline becomes one space
\* (faulty variant: the newlines are left in place)
ReplaceNewlines_Identity(s) == s

ReplaceNewlines(s) == [i \in 1..Len(s) |-> IF s[i] = "\n" THEN " " ELSE s[i]]

HasNewline(s) == \E i \in 1..Len(s) : s[i] = "\n"

\* (faulty variant: an absent value is turned into the empty string)
ReplaceCell_NoneToEmpty(c) == IF c = None THEN <<>> ELSE ReplaceNewlines(c)

\* DataFrame.replace(r'\n', ' ', regex=True) on one value: only strings
\* are rewritten, None / NaN stay as they are
ReplaceCell(c) == IF c = None THEN None ELSE ReplaceNewlines(c)

\* DataFrame.replace(r'\n', ' ', regex=True): the values, not the labels
DfReplace(df) ==
    [df EXCEPT !.rows = [r \in 1..Len(df.rows) |->
                           [k \in 1..Len(df.rows[r]) |-> ReplaceCell(df.rows[r][k])]]]

----------------------------------------------------------------------------
(* process_visual_grid *)

\* pd.DataFrame(all_rows): as wide as the longest row, short rows padded
\* with None, columns labelled 0 .. width-1
RangeLabel(i) == <<ToString(i - 1)>>

Width(rows) == IF rows = <<>> THEN 0 ELSE Max({Len(rows[r]) : r \in 1..Len(rows)})

PadRow(row, w) == [k \in 1..w |-> IF k <= Len(row) THEN row[k] ELSE None]

DataFrame(rows) ==
    [isdf |-> TRUE,
     columns |-> [k \in 1..Width(rows) |-> RangeLabel(k)],
     rows |-> [r \in 1..Len(rows) |-> PadRow(rows[r], Width(rows))]]

\* (faulty variant: the first row is also left among the data rows)
PromoteHeader_KeepsFirstRow(df) == [df EXCEPT !.columns = df.rows[1]]

\* df.columns = df.iloc[0]; df = df[1:]
PromoteHeader(df) == [df EXCEPT !.columns = df.rows[1], !.rows = Tail(df.rows)]

\* lines 54-67 of process_visual_grid, after the page loop
GridResult(rows, header, clean) ==
    IF rows = <<>> THEN NoDf
    ELSE LET df0 == DataFrame(rows)
             df1 == IF header THEN PromoteHeader(df0) ELSE df0
         IN  IF clean THEN DfReplace(df1) ELSE df1

----------------------------------------------------------------------------
(* process_raw_text, step 2: the start keyword *)

\* the indexes (from 0) at which key occurs in text
Occurrences(text, key) ==
    {i \in 0..(Len(text) - Len(key)) : SubSeq(text, i + 1, i + Len(key)) = key}

\* (faulty variant: str.rfind, the highest index)
Find_Last(text, key) ==
    IF Occurrences(text, key) = {} THEN -1 ELSE Max(Occurrences(text, key))

\* str.find: the lowest index (from 0) at which key occurs in text, or -1
Find(text, key) ==
    IF Occurrences(text, key) = {} THEN -1 ELSE Min(Occurrences(text, key))

\* (faulty variant: a keyword that is not found empties the text)
LocateStart_DropsOnMiss(text, start_key) ==
    IF start_key = <<>> THEN text
    ELSE IF Find(text, start_key) # -1
         THEN SubSeq(text, Find(text, start_key) + 1, Len(text))
         ELSE <<>>

\* lines 81-86: the text the parse step receives
LocateStart(text, start_key) ==
    IF start_key = <<>> THEN text
    ELSE IF Find(text, start_key) # -1
         THEN SubSeq(text, Find(text, start_key) + 1, Len(text))
         ELSE text

\* line 86: the warning is shown exactly when a keyword was given and not found
KeywordWarning(text, start_key) ==
    start_key # <<>> /\ Find(text, start_key) = -1

----------------------------------------------------------------------------
(* process_raw_text, step 3: pd.read_csv(io.StringIO(full_text),          *)
(* sep=actual_sep, quotechar=quote, skipinitialspace=True,                *)
(* on_bad_lines='skip'), as pandas' C tokenizer reads it (header inferred *)
(* from the first line, blank lines skipped, doubled quotes).             *)

\* line 91-92: sep_map.get(sep_char, ",")
SepMap(sep_char) ==
    CASE sep_char = ", (Comma)"     -> ","
      [] sep_char = "; (Semicolon)" -> ";"
      [] sep_char = "| (Pipe)"      -> "|"
      [] sep_char = "\\t (Tab)"     -> "\t"
      [] OTHER                      -> ","

\* line 98
skipinitialspace == TRUE

\* (faulty variant: pandas' default, a bad line raises)
on_bad_lines_Error == "error"

\* line 99
on_bad_lines == "skip"

IsWhitespace(c) == c \in {" ", "\t"}

TokInit ==
    [state |-> "START_RECORD", field |-> <<>>, fields |-> <<>>, lines |-> <<>>,
     line_start |-> 1, err |-> ""]

EndField(p) == [p EXCEPT !.fields = Append(@, p.field), !.field = <<>>]

PadFields(fields, n) ==
    [k \in 1..(IF Len(fields) < n THEN n ELSE Len(fields)) |->
        IF k <= Len(fields) THEN fields[k] ELSE <<>>]

\* The end of a record.  The header (line 0) and the first data line are
\* always kept; a later line with more fields than the line kept before it
\* is a bad line; a shorter one is padded with empty fields.
EndLine(p) ==
    LET n  == Len(p.lines)
        ex == IF n > 0 THEN Len(p.lines[n]) ELSE 0
    IN  IF n > 1 /\ Len(p.fields) > ex
        THEN IF on_bad_lines = "skip"
             THEN [p EXCEPT !.fields = <<>>, !.field = <<>>, !.state = "START_RECORD"]
             ELSE [p EXCEPT !.err = "ParserError: Expected fields"]
        ELSE [p EXCEPT !.lines = Append(@, IF n >= 1 THEN PadFields(p.fields, ex)
                                                     ELSE p.fields),
                       !.fields = <<>>, !.field = <<>>, !.state = "START_RECORD"]

Push(p, c, st) == [p EXCEPT !.field = Append(@, c), !.state = st]

StartField(p, c, sep, quote) ==
    IF c = "\n" THEN EndLine(EndField(p))
    ELSE IF c = quote THEN [p EXCEPT !.state = "IN_QUOTED_FIELD"]
    ELSE IF c = " " /\ skipinitialspace THEN [p EXCEPT !.state = "START_FIELD"]
    ELSE IF c = sep THEN [EndField(p) EXCEPT !.state = "START_FIELD"]
    ELSE Push(p, c, "IN_FIELD")

\* One character in one tokenizer state; the result is the new parser state
\* and the index of the next character to read (WHITESPACE_LINE backtracks
\* to the start of the line when the line turns out not to be blank).
TokChar(p, c, i, sep, quote) ==
    CASE p.state = "START_RECORD" ->
            IF c = "\n" THEN <<p, i + 1>>
            ELSE IF IsWhitespace(c) /\ c # sep
                 THEN <<[p EXCEPT !.state = "WHITESPACE_LINE", !.line_start = i], i + 1>>
                 ELSE <<StartField(p, c, sep, quote), i + 1>>
      [] p.state = "WHITESPACE_LINE" ->
            IF c = "\n" THEN <<[p EXCEPT !.state = "START_RECORD"], i + 1>>
            ELSE IF IsWhitespace(c) /\ c # sep THEN <<p, i + 1>>
            ELSE <<[p EXCEPT !.state = "START_FIELD"], p.line_start>>
      [] p.state = "START_FIELD" -> <<StartField(p, c, sep, quote), i + 1>>
      [] p.state = "IN_FIELD" ->
            IF c = "\n" THEN <<EndLine(EndField(p)), i + 1>>
            ELSE IF c = sep THEN <<[EndField(p) EXCEPT !.state = "START_FIELD"], i + 1>>
            ELSE <<Push(p, c, "IN_FIELD"), i + 1>>
      [] p.state = "IN_QUOTED_FIELD" ->
            IF c = quote THEN <<[p EXCEPT !.state = "QUOTE_IN_QUOTED_FIELD"], i + 1>>
            ELSE <<Push(p, c, "IN_QUOTED_FIELD"), i + 1>>
      [] p.state = "QUOTE_IN_QUOTED_FIELD" ->
            IF c = quote THEN <<Push(p, c, "IN_QUOTED_FIELD"), i + 1>>
            ELSE IF c = sep THEN <<[EndField(p) EXCEPT !.state = "START_FIELD"], i + 1>>
            ELSE IF c = "\n" THEN <<EndLine(EndField(p)), i + 1>>
            ELSE <<Push(p, c, "IN_FIELD"), i + 1>>

\* The end of the text: a record still open is closed, a quoted field still
\* open is an error.
HandleEof(p) ==
    IF p.err # "" THEN p
    ELSE IF p.state \in {"START_RECORD", "WHITESPACE_LINE"} THEN p
    ELSE IF p.state = "IN_QUOTED_FIELD"
         THEN [p EXCEPT !.err = "ParserError: EOF inside string"]
         ELSE EndLine(EndField(p))

RECURSIVE Tokenize(_, _, _, _, _)
Tokenize(text, i, p, sep, quote) ==
    IF p.err # "" THEN p
    ELSE IF i > Len(text) THEN HandleEof(p)
    ELSE LET nx == TokChar(p, text[i], i, sep, quote)
         IN  Tokenize(text, nx[2], nx[1], sep, quote)

\* An empty field is read as NaN (pandas' default na_values hold '')
NaCell(f) == IF f = <<>> THEN None ELSE f

\* An empty header field is named "Unnamed: <position>"
Unnamed(i) == <<"U", "n", "n", "a", "m", "e", "d", ":", " ", ToString(i - 1)>>

\* A header name seen k times before gets the suffix ".k"
HeaderName(header, i) ==
    LET nm   == IF header[i] = <<>> THEN Unnamed(i) ELSE header[i]
        seen == Cardinality({j \in 1..(i - 1) : header[j] = header[i] /\ header[i] # <<>>})
    IN  IF seen = 0 THEN nm ELSE nm \o <<".", ToString(seen)>>

\* The frame read_csv returns, or the exception it raises.  With more fields
\* in the first data line than in the header, the leading columns become
\* the index, which is no column of the frame.
ReadCsv(text, sep, quote) ==
    IF Len(quote) # 1
    THEN [err |-> "TypeError: quotechar must be set if quoting enabled", df |-> NoDf]
    ELSE LET p == Tokenize(text, 1, TokInit, sep, quote[1])
         IN  IF p.err # "" THEN [err |-> p.err, df |-> NoDf]
             ELSE IF p.lines = <<>>
             THEN [err |-> "EmptyDataError: No columns to parse from file", df |-> NoDf]
             ELSE LET header  == p.lines[1]
                      data    == Tail(p.lines)
                      h       == Len(header)
                      w       == IF data = <<>> THEN h ELSE Len(data[1])
                      leading == w - h
                  IN  [err |-> "",
                       df  |-> [isdf |-> TRUE,
                                columns |-> [k \in 1..h |-> HeaderName(header, k)],
                                rows |-> [r \in 1..Len(data) |->
                                            [k \in 1..h |-> NaCell(data[r][leading + k])]]]]

\* str.strip(): leading and trailing whitespace removed
IsSpace(c) == c \in {" ", "\t", "\n", "\r"}

Strip(s) ==
    LET keep == {i \in 1..Len(s) : ~IsSpace(s[i])}
    IN  IF keep = {} THEN <<>> ELSE SubSeq(s, Min(keep), Max(keep))

\* (faulty variant: the header names are not stripped)
CleanHeader_NoStrip(df) ==
    [df EXCEPT !.columns = [k \in 1..Len(df.columns) |-> ReplaceNewlines(df.columns[k])]]

\* line 103: df.columns.str.replace('\n', ' ').str.strip()
CleanHeader(df) ==
    [df EXCEPT !.columns = [k \in 1..Len(df.columns) |->
                              Strip(ReplaceNewlines(df.columns[k]))]]

\* lines 88-109: the frame returned, or the error shown and None
ParseResult(text, sep_char, quote) ==
    LET r == ReadCsv(text, SepMap(sep_char), quote)
    IN  IF r.err # "" THEN [err |-> r.err, df |-> NoDf]
        ELSE [err |-> "", df |-> DfReplace(CleanHeader(r.df))]

----------------------------------------------------------------------------
(* The script *)

\* The widgets' inputs: two of the four separators of the selectbox (no page
\* text holds a semicolon, a pipe or a tab, so the other two read every text
\* as the semicolon does), the default quote character and none, and no
\* keyword, a one-character and a two-character keyword
SeparatorOptions == {", (Comma)", "; (Semicolon)"}
QuoteInputs == {<<"\"">>, <<>>}
KeywordInputs == {<<>>, <<"a">>, <<"a", ",">>}

\* Characters page.extract_text() returns
TextChars == {"a", ",", "\"", " ", "\n"}

Texts(n) == UNION {[1..k -> TextChars] : k \in 0..n}

\* Longer page texts, made of whole lines of a small vocabulary
LineVocab == {<<>>, <<"a">>, <<"b">>, <<"a", ",", "b">>}

RECURSIVE JoinLines(_)
JoinLines(ls) ==
    IF Len(ls) = 0 THEN <<>>
    ELSE IF Len(ls) = 1 THEN ls[1]
    ELSE ls[1] \o <<"\n">> \o JoinLines(Tail(ls))

LinePages(n) == {JoinLines(ls) : ls \in UNION {[1..k -> LineVocab] : k \in 1..n}}

NewlinesOf(text) == {i \in 1..Len(text) : text[i] = "\n"}

\* the line that ends at the newline at index i
LineEndingAt(text, i) ==
    SubSeq(text, Max({j \in NewlinesOf(text) : j < i} \cup {0}) + 1, i - 1)

OnlyVocabLines(text) ==
    \A i \in NewlinesOf(text) : LineEndingAt(text, i) \in LineVocab

\* what extract_text may return for the next page, given the text so far
PageTexts(sofar) ==
    Texts(MaxTextLen - Len(sofar) - 1)
    \cup (IF OnlyVocabLines(sofar)
          THEN LinePages(MaxLines - Cardinality(NewlinesOf(sofar)))
          ELSE {})

Init ==
    /\ pc = "sidebar"
    /\ settings = << >>
    /\ uploaded_file = [present |-> FALSE, readable |-> FALSE]
    /\ all_rows = <<>>
    /\ full_text = <<>>
    /\ df_result = NoDf
    /\ ui = {}
    /\ reads = {}
    /\ ran = {}

\* lines 23, 28-31: the radio, then the widgets of grid mode only
SidebarGrid ==
    /\ pc = "sidebar"
    /\ \E cn \in BOOLEAN, hr \in BOOLEAN :
         settings' = [mode |-> GridMode, clean_newlines |-> cn, header_row |-> hr]
    /\ pc' = "uploader"
    /\ UNCHANGED <<uploaded_file, all_rows, full_text, df_result, ui, reads, ran>>

\* lines 23, 33-37: the radio, then the widgets of raw text mode only
SidebarText ==
    /\ pc = "sidebar"
    /\ \E sp \in SeparatorOptions, q \in QuoteInputs, k \in KeywordInputs :
         settings' = [mode |-> TextMode, separator |-> sp, quote_char |-> q,
                      start_keyword |-> k]
    /\ pc' = "uploader"
    /\ UNCHANGED <<uploaded_file, all_rows, full_text, df_result, ui, reads, ran>>

\* lines 113-115 with no file: nothing below "if uploaded_file:" runs
NoUpload ==
    /\ pc = "uploader"
    /\ pc' = "done"
    /\ UNCHANGED <<settings, uploaded_file, all_rows, full_text, df_result,
                   ui, reads, ran>>

\* lines 113-118 with a file
Upload ==
    /\ pc = "uploader"
    /\ \E rd \in BOOLEAN : uploaded_file' = [present |-> TRUE, readable |-> rd]
    /\ ui' = ui \cup {"info: Processing..."}
    /\ pc' = "route"
    /\ UNCHANGED <<settings, all_rows, full_text, df_result, reads, ran>>

\* (faulty variant: the mode is ignored)
RouteTarget_AlwaysText(mode) == "process_raw_text"

\* lines 121-124: the function the mode selects
RouteTarget(mode) ==
    IF mode = GridMode THEN "process_visual_grid" ELSE "process_raw_text"

\* the names a call reads as its arguments (line 124)
CallArgs(fn) ==
    IF fn = "process_raw_text" THEN {"separator", "quote_char", "start_keyword"} ELSE {}

\* lines 121-124, then pdfplumber.open (line 45 or 74).  A name the sidebar
\* did not define raises NameError, an unreadable file raises in open; no
\* handler encloses either.
Route ==
    /\ pc = "route"
    /\ LET fn == RouteTarget(settings.mode)
       IN  /\ reads' = reads \cup {"mode"} \cup CallArgs(fn)
           /\ IF ~(CallArgs(fn) \subseteq DOMAIN settings)
              THEN /\ pc' = "crashed" /\ ran' = ran
              ELSE /\ ran' = ran \cup {fn}
                   /\ pc' = IF ~uploaded_file.readable THEN "crashed"
                            ELSE IF fn = "process_visual_grid" THEN "grid_pages"
                            ELSE "text_pages"
    /\ UNCHANGED <<settings, uploaded_file, all_rows, full_text, df_result, ui>>

\* lines 47-52: one page of the loop.  The file has as many pages as the
\* loop consumes before it ends.
GridPage ==
    /\ pc = "grid_pages"
    /\ \E t \in RawTables(MaxRows - Len(all_rows)) : all_rows' = all_rows \o t
    /\ UNCHANGED <<pc, settings, uploaded_file, full_text, df_result, ui, reads, ran>>

\* lines 54-67: after the loop
GridFinish ==
    /\ pc = "grid_pages"
    /\ LET needed == IF all_rows = <<>> THEN {} ELSE {"header_row", "clean_newlines"}
       IN  /\ reads' = reads \cup needed
           /\ IF needed \subseteq DOMAIN settings
              THEN /\ df_result' = IF all_rows = <<>> THEN NoDf
                                   ELSE GridResult(all_rows, settings.header_row,
                                                   settings.clean_newlines)
                   /\ pc' = "output"
              ELSE /\ df_result' = df_result
                   /\ pc' = "crashed"
    /\ UNCHANGED <<settings, uploaded_file, all_rows, full_text, ui, ran>>

\* lines 75-78: one page of the loop
TextPage ==
    /\ pc = "text_pages"
    /\ \E t \in PageTexts(full_text) :
         /\ full_text' = IF t # <<>> THEN full_text \o t \o <<"\n">> ELSE full_text
    /\ UNCHANGED <<pc, settings, uploaded_file, all_rows, df_result, ui, reads, ran>>

\* lines 80-86: after the loop, the keyword filter
TextFilter ==
    /\ pc = "text_pages"
    /\ full_text' = LocateStart(full_text, settings.start_keyword)
    /\ ui' = IF KeywordWarning(full_text, settings.start_keyword)
             THEN ui \cup {"warning: Keyword not found. Using full text."}
             ELSE ui
    /\ pc' = "parse"
    /\ UNCHANGED <<settings, uploaded_file, all_rows, df_result, reads, ran>>

\* lines 88-109: the parse and the cleaning, inside the try
TextParse ==
    /\ pc = "parse"
    /\ LET r == ParseResult(full_text, settings.separator, settings.quote_char)
       IN  /\ df_result' = r.df
           /\ ui' = IF r.err # "" THEN ui \cup {"error: Parsing Error"} ELSE ui
    /\ pc' = "output"
    /\ UNCHANGED <<settings, uploaded_file, all_rows, full_text, reads, ran>>

\* DataFrame.empty: some axis has length 0
DfEmpty(df) == df.rows = <<>> \/ df.columns = <<>>

\* (faulty variant: the .empty test is left out)
OutputOk_NotNoneOnly(df) == df.isdf

\* line 127
OutputOk(df) == df.isdf /\ ~DfEmpty(df)

\* lines 126-145
Output ==
    /\ pc = "output"
    /\ ui' = IF OutputOk(df_result)
             THEN ui \cup {"success: Conversion Successful!", "preview", "download"}
             ELSE ui \cup {"warning: No data could be extracted."}
    /\ pc' = "done"
    /\ UNCHANGED <<settings, uploaded_file, all_rows, full_text, df_result,
                   reads, ran>>

Next ==
    \/ SidebarGrid
    \/ SidebarText
    \/ NoUpload
    \/ Upload
    \/ Route
    \/ GridPage
    \/ GridFinish
    \/ TextPage
    \/ TextFilter
    \/ TextParse
    \/ Output

Spec == Init /\ [][Next]_vars

TypeOK ==
    /\ pc \in {"sidebar", "uploader", "route", "grid_pages", "text_pages", "parse",
               "output", "done", "crashed"}
    /\ Len(full_text) <= MaxTextLen \/ Cardinality(NewlinesOf(full_text)) <= MaxLines
    /\ Len(all_rows) <= MaxRows

----------------------------------------------------------------------------
(* Vocabulary of the properties *)

GridRan == pc \in {"output", "done"} /\ ran = {"process_visual_grid"}
TextRan == pc \in {"output", "done"} /\ ran = {"process_raw_text"}

NoDataShown == "warning: No data could be extracted." \in ui
ParseErrorShown == "error: Parsing Error" \in ui
KeywordWarningShown == "warning: Keyword not found. Using full text." \in ui

\* rows of all_rows that precede the first data row of the frame
HeaderOffset == IF settings.header_row THEN 1 ELSE 0

\* the cell of all_rows behind cell k of data row r (absent beyond the row's end)
SourceCell(r, k) ==
    LET row == all_rows[r + HeaderOffset]
    IN  IF k <= Len(row) THEN row[k] ELSE None

\* c is src with each newline turned into one space, nothing else changed
NewlinesSpaced(c, src) ==
    /\ Len(c) = Len(src)
    /\ \A i \in 1..Len(src) : c[i] = (IF src[i] = "\n" THEN " " ELSE src[i])

Trimmed(c) == c = <<>> \/ (~IsSpace(c[1]) /\ ~IsSpace(c[Len(c)]))

CellsOf(df) == {df.rows[r][k] : r \in 1..Len(df.rows), k \in 1..Len(df.columns)}
LabelsOf(df) == {df.columns[k] : k \in 1..Len(df.columns)}

\* The records of a text without quote characters, read line by line: the
\* non-blank lines in order, each split at the separator, the spaces that
\* lead a field removed.
KthSmallest(S, k) == CHOOSE x \in S : Cardinality({y \in S : y <= x}) = k

IsBlankLine(line) == \A i \in 1..Len(line) : line[i] = " "

RecordEnds(text) == {i \in NewlinesOf(text) : ~IsBlankLine(LineEndingAt(text, i))}

LStripSpaces(f) ==
    LET keep == {i \in 1..Len(f) : f[i] # " "}
    IN  IF keep = {} THEN <<>> ELSE SubSeq(f, Min(keep), Len(f))

FieldsOfLine(line, sep) ==
    LET cuts == {i \in 1..Len(line) : line[i] = sep} \cup {0, Len(line) + 1}
    IN  [n \in 1..(Cardinality(cuts) - 1) |->
           LStripSpaces(SubSeq(line, KthSmallest(cuts, n) + 1,
                               KthSmallest(cuts, n + 1) - 1))]

RecordsOf(text, sep) ==
    LET ends == RecordEnds(text)
    IN  [n \in 1..Cardinality(ends) |->
           FieldsOfLine(LineEndingAt(text, KthSmallest(ends, n)), sep)]

\* the width of the data lines: the wider of the header and the first data line
DataWidth(recs) ==
    IF Len(recs) >= 2 /\ Len(recs[2]) > Len(recs[1]) THEN Len(recs[2]) ELSE Len(recs[1])

\* the records after the header that are kept: the first always, a later one
\* unless it has more fields than the data width
KeptRecords(recs) ==
    LET w == DataWidth(recs)
    IN  {n \in 2..Len(recs) : n = 2 \/ Len(recs[n]) <= w}

\* the data rows expected of the records: the kept ones in order, short ones
\* filled up, the columns beyond the header's (on the left) left out
ExpectedRows(recs) ==
    LET kept == KeptRecords(recs)
        off  == DataWidth(recs) - Len(recs[1])
    IN  [r \in 1..Cardinality(kept) |->
           LET rec == recs[KthSmallest(kept, r)]
           IN  [k \in 1..Len(recs[1]) |->
                  IF off + k <= Len(rec) /\ rec[off + k] # <<>> THEN rec[off + k] ELSE None]]

QuoteOk == Len(settings.quote_char) = 1
QuoteFree == \A i \in 1..Len(full_text) : <<full_text[i]>> # settings.quote_char
TextRecords == RecordsOf(full_text, SepMap(settings.separator))

----------------------------------------------------------------------------
(* C1 *)

\* C1 as stated: the grid path's table has as many rows as the input.
C1_Original ==
    GridRan => Len(df_result.rows) = Len(all_rows)

\* C1, amended: with "First row is header" off the frame has one row per input
\* row; with it on (the default) the first input row becomes the column
\* labels and the frame has the remaining rows.  In both cases the rows keep
\* their order and their cells (up to the newline cleaning), no other row is
\* dropped, and an input of no rows gives no frame.
C1_RowsInOrder ==
    GridRan =>
        IF all_rows = <<>> THEN ~df_result.isdf
        ELSE /\ df_result.isdf
             /\ Len(df_result.rows) = Len(all_rows) - HeaderOffset
             /\ \A r \in 1..Len(df_result.rows) :
                  \A k \in 1..Len(all_rows[r + HeaderOffset]) :
                     \/ df_result.rows[r][k] = SourceCell(r, k)
                     \/ /\ SourceCell(r, k) # None
                        /\ NewlinesSpaced(df_result.rows[r][k], SourceCell(r, k))

C1_Witness ==
    /\ pc = "done" /\ GridRan
    /\ settings.header_row
    /\ Len(all_rows) = 2 /\ all_rows[1] # all_rows[2]
    /\ df_result.isdf /\ Len(df_result.rows) = 1

----------------------------------------------------------------------------
(* C2 *)

\* C2 as stated: no cell and no header cell of a produced table holds a
\* newline, whatever the path and the settings.
C2_Original ==
    pc \in {"output", "done"} /\ df_result.isdf =>
        \A c \in CellsOf(df_result) \cup LabelsOf(df_result) : ~HasNewline(c)

\* C2, amended: in the raw text path no cell and no header cell holds a
\* newline; in the grid path no data cell holds a newline when "Remove
\* newlines from cells" is on, each newline having become one space.  (The
\* grid path leaves the newlines when the setting is off, and never cleans
\* the column labels taken from the first row.)
C2_NoNewline ==
    /\ TextRan /\ df_result.isdf =>
         \A c \in CellsOf(df_result) \cup LabelsOf(df_result) : ~HasNewline(c)
    /\ GridRan /\ df_result.isdf /\ settings.clean_newlines =>
         \A r \in 1..Len(df_result.rows) : \A k \in 1..Len(df_result.columns) :
            /\ ~HasNewline(df_result.rows[r][k])
            /\ SourceCell(r, k) # None =>
                 NewlinesSpaced(df_result.rows[r][k], SourceCell(r, k))

C2_Witness ==
    /\ pc = "done" /\ TextRan /\ df_result.isdf
    /\ \E c \in CellsOf(ReadCsv(full_text, SepMap(settings.separator),
                                settings.quote_char).df) : HasNewline(c)
    /\ <<" ">> \in CellsOf(df_result)

----------------------------------------------------------------------------
(* C3 *)

\* the cell mapping C3 states
StatedCell(c) ==
    IF c = None \/ c = <<>> THEN <<>>
    ELSE LET t == [i \in 1..Len(c) |-> IF c[i] = "\n" THEN " " ELSE c[i]]
             keep == {i \in 1..Len(t) : ~IsSpace(t[i])}
         IN  IF keep = {} THEN <<>> ELSE SubSeq(t, Min(keep), Max(keep))

ExampleRows == << << <<"A">>, <<"B", "\n", "C">> >>, << None, <<"D">> >> >>

\* C3 as stated: absent and empty cells become "", the others have their
\* newlines replaced and are trimmed; the example gives [["A","B C"],["","D"]].
C3_Original ==
    /\ GridRan /\ df_result.isdf =>
         \A r \in 1..Len(df_result.rows) : \A k \in 1..Len(df_result.columns) :
            df_result.rows[r][k] = StatedCell(SourceCell(r, k))
    /\ GridRan /\ all_rows = ExampleRows /\ ~settings.header_row =>
         df_result.rows = << << <<"A">>, <<"B", " ", "C">> >>, << <<>>, <<"D">> >> >>

\* C3, amended: in the grid path every data cell is mapped independently: an
\* absent cell stays absent (None), and a text cell is kept as it is, without
\* trimming, except that with "Remove newlines from cells" on each of its
\* newlines is replaced by one space; with the header setting off the
\* example gives [["A","B C"],[None,"D"]].
C3_CellMap ==
    /\ GridRan /\ df_result.isdf =>
         \A r \in 1..Len(df_result.rows) : \A k \in 1..Len(df_result.columns) :
            IF SourceCell(r, k) = None THEN df_result.rows[r][k] = None
            ELSE IF settings.clean_newlines
                 THEN NewlinesSpaced(df_result.rows[r][k], SourceCell(r, k))
                 ELSE df_result.rows[r][k] = SourceCell(r, k)
    /\ GridRan /\ all_rows = ExampleRows /\ ~settings.header_row
          /\ settings.clean_newlines =>
         df_result.rows = << << <<"A">>, <<"B", " ", "C">> >>, << None, <<"D">> >> >>

C3_Witness ==
    /\ pc = "done" /\ GridRan /\ df_result.isdf
    /\ all_rows = ExampleRows
    /\ ~settings.header_row /\ settings.clean_newlines

----------------------------------------------------------------------------
(* C4 *)

FilterStep == pc = "text_pages" /\ pc' # pc

\* C4: the keyword filter leaves the text as it is when the keyword is empty
\* or does not occur in it, and the run goes on to the parse step with that
\* text (with the warning shown when a keyword was given).
C4_TextUnchanged ==
    [][FilterStep =>
         /\ pc' = "parse"
         /\ (settings.start_keyword = <<>>
               \/ Occurrences(full_text, settings.start_keyword) = {}) =>
              /\ full_text' = full_text
              /\ (settings.start_keyword # <<>>) =
                   ("warning: Keyword not found. Using full text." \in ui')]_vars

C4_Witness ==
    /\ pc = "parse"
    /\ KeywordWarningShown
    /\ full_text # <<>>
    /\ settings.start_keyword # <<>>

----------------------------------------------------------------------------
(* C5 *)

\* C5: when the keyword occurs in the text, the filter returns the suffix of
\* the text that starts at its first occurrence, the keyword included; and
\* filtering twice gives what filtering once gives.
C5_SuffixAtFirst ==
    [][/\ FilterStep /\ settings.start_keyword # <<>>
          /\ Occurrences(full_text, settings.start_keyword) # {} =>
            \E i \in Occurrences(full_text, settings.start_keyword) :
               /\ \A j \in Occurrences(full_text, settings.start_keyword) : i <= j
               /\ full_text' = SubSeq(full_text, i + 1, Len(full_text))
               /\ SubSeq(full_text', 1, Len(settings.start_keyword)) = settings.start_keyword
       /\ \A k \in KeywordInputs :
            LocateStart(LocateStart(full_text, k), k) = LocateStart(full_text, k)]_vars

C5_Witness ==
    /\ pc = "parse"
    /\ settings.start_keyword # <<>>
    /\ ~KeywordWarningShown
    /\ Cardinality(Occurrences(full_text, settings.start_keyword)) >= 2

----------------------------------------------------------------------------
(* C6 *)

ZeroRows == ~df_result.isdf \/ df_result.rows = <<>>

\* C6: a run whose normalisation gives zero rows ends with the "no data"
\* warning and neither preview nor download; empty table rows and an empty
\* text are such runs; a download is offered only for a table of at least
\* one row.
C6_EmptyResult ==
    pc = "done" /\ ran # {} =>
        /\ ZeroRows => NoDataShown /\ "download" \notin ui /\ "preview" \notin ui
        /\ "download" \in ui => df_result.isdf /\ Len(df_result.rows) >= 1
        /\ GridRan /\ all_rows = <<>> => ZeroRows
        /\ TextRan /\ full_text = <<>> => ZeroRows

C6_Witness ==
    /\ pc = "done"
    /\ df_result.isdf /\ df_result.rows = <<>>
    /\ NoDataShown /\ "download" \notin ui

----------------------------------------------------------------------------
(* C7 *)

\* C7: a file the extraction cannot read ends the run with an error message
\* shown by the program; no run ends in an exception nothing caught.
C7_AllFailuresCaught ==
    /\ pc # "crashed"
    /\ uploaded_file.present /\ ~uploaded_file.readable /\ ran # {} =>
         \E m \in ui : m = "error: Parsing Error"

----------------------------------------------------------------------------
(* C8 *)

HasRecord == RecordEnds(full_text) # {}

\* C8 as stated: bad lines are skipped with the other lines kept in order,
\* blank lines give no row, and malformed content never aborts the parse as
\* a whole.
C8_Original ==
    TextRan /\ QuoteOk /\ HasRecord =>
        /\ ~ParseErrorShown
        /\ QuoteFree => df_result.rows = ExpectedRows(TextRecords)

\* C8, amended: a line after the first data line that has more fields than
\* the data width is skipped and the parse goes on: the other lines give the
\* rows, in order, and blank lines give no row.  The parse is aborted as a
\* whole ("Parsing Error", no table) only when the quote character setting is
\* empty, when the text holds no line to parse, or when a quoted field is
\* still open at the end of the text (so the quote character occurs in it).
C8_BadLinesSkipped ==
    TextRan =>
        /\ ParseErrorShown = ~df_result.isdf
        /\ ParseErrorShown => ~QuoteOk \/ ~HasRecord \/ ~QuoteFree
        /\ QuoteOk /\ HasRecord /\ QuoteFree =>
             df_result.rows = ExpectedRows(TextRecords)

C8_Witness ==
    /\ pc = "done" /\ TextRan /\ df_result.isdf /\ QuoteFree
    /\ Len(df_result.rows) >= 2
    /\ LET recs == TextRecords
       IN  \E n \in 3..(Len(recs) - 1) :
              /\ n \notin KeptRecords(recs)
              /\ n + 1 \in KeptRecords(recs)

----------------------------------------------------------------------------
(* C9 *)

\* C9 as stated: the header cells are newline-stripped and trimmed by the
\* same rule as the data cells, so the data cells are trimmed too.
C9_Original ==
    TextRan /\ df_result.isdf =>
        /\ \A c \in LabelsOf(df_result) : ~HasNewline(c) /\ Trimmed(c)
        /\ \A c \in CellsOf(df_result) : c = None \/ (~HasNewline(c) /\ Trimmed(c))

\* C9, amended: in the raw text path the first parsed line is always the
\* header (no setting makes it a data row; "First row is header" exists in
\* grid mode only).  The header cells have their newlines replaced by spaces
\* and are trimmed on both sides; the data cells kept as text have their
\* newlines replaced but are not trimmed (only the spaces that lead a field
\* are skipped by the parser): in a text without quote characters each data
\* cell is its field as written, trailing spaces included.
C9_HeaderAlways ==
    TextRan /\ df_result.isdf =>
        /\ Len(df_result.columns) >= 1
        /\ \A c \in LabelsOf(df_result) : ~HasNewline(c) /\ Trimmed(c)
        /\ \A c \in CellsOf(df_result) : ~HasNewline(c)
        /\ QuoteFree =>
             LET recs == TextRecords
             IN  /\ Len(df_result.columns) = Len(recs[1])
                 /\ \A k \in 1..Len(df_result.columns) :
                      df_result.columns[k] = Strip(HeaderName(recs[1], k))
                 /\ Len(df_result.rows) <= Len(recs) - 1
                 /\ df_result.rows = ExpectedRows(recs)

C9_Witness ==
    /\ pc = "done" /\ TextRan /\ df_result.isdf /\ QuoteFree
    /\ TextRecords[1][1] = <<"a", " ">>
    /\ df_result.columns[1] = <<"a">>
    /\ <<"a", " ">> \in CellsOf(df_result)

----------------------------------------------------------------------------
(* C10 *)

\* C10: with a file, exactly one extraction function runs, the one of the
\* mode; every setting a run reads was defined by the sidebar in that run;
\* without a file nothing runs and nothing is shown.
C10_OnePath ==
    /\ reads \subseteq DOMAIN settings
    /\ Cardinality(ran) <= 1
    /\ pc \in {"grid_pages", "text_pages", "parse", "output", "done", "crashed"}
         /\ uploaded_file.present =>
           ran = {IF settings.mode = GridMode THEN "process_visual_grid"
                                              ELSE "process_raw_text"}
    /\ ~uploaded_file.present => ran = {} /\ ui = {} /\ reads = {} /\ ~df_result.isdf

C10_Witness ==
    /\ pc = "done"
    /\ ran = {"process_visual_grid"}
    /\ "header_row" \in reads
    /\ df_result.isdf

=============================================================================
